---- MODULE Spec2Model ----
(***************************************************************************)
(* A model of flight_planner.py: the schedule loader, build_graph, the two *)
(* label-correcting searches (find_earliest_itinerary and                  *)
(* find_cheapest_itinerary) and reconstruct_itinerary.                     *)
(*                                                                         *)
(* Airport codes are the strings "A", "B", ...; Python compares them       *)
(* lexicographically inside heap tuples, which Rank reproduces.  Times are *)
(* minutes since midnight.  A Flight is a record with the fields of the    *)
(* dataclass except flight_number, an opaque label that no function of the *)
(* search reads.                                                           *)
(***************************************************************************)
EXTENDS Integers, Sequences, FiniteSets

\* flight_planner.py:10
MIN_LAYOVER_MINUTES == 60

(***************************************************************************)
(* Bounds of the model.                                                    *)
(***************************************************************************)
\* longest schedule handed to build_graph
MaxFlights == 3
\* clock times are whole multiples of the minimum layover up to this multiple
MaxSlot == 3
\* longest file handed to the loader
MaxRows == 2

AirportNames == <<"A", "B", "C">>
Airports == {AirportNames[i] : i \in 1..Len(AirportNames)}
Rank(a) == CHOOSE i \in 1..Len(AirportNames) : AirportNames[i] = a

Cabins == {"economy", "business", "first"}
Times(last) == {MIN_LAYOVER_MINUTES * k : k \in 0..last}
Departures == {0, MIN_LAYOVER_MINUTES}

\* The start airport of a query.  With arrive > depart and fares >= 0 the
\* start is pushed once, popped while it is alone in the heap and never pushed
\* again, so its code is never compared with another code: the queries from
\* "A" stand for those from any airport.
Starts == {AirportNames[1]}

\* Per-flight fare triples <<economy, business, first>>: within one cabin the
\* fare takes two values independently from flight to flight.
FareTriples == {<<0, 1, 1>>, <<1, 0, 2>>}

\* class Flight
Flight(o, d, dep, arr, fares) ==
    [origin |-> o, dest |-> d, depart |-> dep, arrive |-> arr,
     economy |-> fares[1], business |-> fares[2], first |-> fares[3]]

\* The exception of Flight.price_for, as the outcome of a call it ends
ValueError == "ValueError"

\* Flight.price_for falls through its three tests to the raise
PriceRaises(c) == c # "economy" /\ c # "business" /\ c # "first"

\* Flight.price_for
price_for(f, c) ==
    IF c = "economy" THEN f.economy
    ELSE IF c = "business" THEN f.business
    ELSE IF c = "first" THEN f.first
    ELSE ValueError

\* Flights between two distinct airports that leave and land at times of
\* Times(last), last at most slots layovers long, with fares from triples.
FlightsWithin(last, slots, triples) ==
    {f \in {Flight(o, d, dep, dep + MIN_LAYOVER_MINUTES * n, ft) :
                o \in Airports, d \in Airports, dep \in Times(last),
                n \in 1..slots, ft \in triples} :
        f.origin # f.dest /\ f.arrive \in Times(last)}

SchedulesUpTo(universe, longest) == UNION {[1..n -> universe] : n \in 0..longest}

\* A search from st to st returns at its first pop, before it reads a flight:
\* those queries run on the schedules of at most one flight.
LongestFor(st, d) == IF st = d THEN 1 ELSE MaxFlights

\* Flights of find_cheapest_itinerary: one slot long, both fare triples.
CheapestFlights == FlightsWithin(MaxSlot, 1, FareTriples)

\* Flights of find_earliest_itinerary, which reads no fare: one fare triple,
\* one more time slot, one or two slots long.
EarliestFlights == FlightsWithin(MaxSlot + 1, 2, {<<0, 1, 1>>})

VARIABLES
    flights,             \* the schedule handed to build_graph
    graph,               \* Graph: origin code -> outbound flights, insertion order
    mode,                \* "earliest" | "cheapest": which search runs
    start, dest, earliest_departure, cabin,     \* the search's arguments
    dist, prev, pq, visited,                    \* the search's locals
    pc,                  \* "loop" inside the while loop, "done" once returned
    returned,            \* "pending" | "None" | "Itinerary" | ValueError
    itinerary,           \* Itinerary.flights of the returned Itinerary
    relaxations,         \* outbound flights examined by the for loop so far
    rows, fmt, load_status, loaded              \* the loader's input and outcome

searchVars == <<dist, prev, pq, visited, pc, returned, itinerary, relaxations>>
queryVars == <<flights, graph, mode, start, dest, earliest_departure, cabin>>
loadVars == <<rows, fmt, load_status, loaded>>
vars == <<queryVars, searchVars, loadVars>>

(***************************************************************************)
(* build_graph, reconstruct_itinerary                                      *)
(***************************************************************************)
\* d[k] = v on a dict
Put(d, k, v) == [x \in DOMAIN d \cup {k} |-> IF x = k THEN v ELSE d[x]]

EmptyDict == [x \in {} |-> 0]

RECURSIVE build_graph_from(_, _, _)
build_graph_from(fs, i, g) ==
    IF i > Len(fs) THEN g
    ELSE LET f == fs[i]
             old == IF f.origin \in DOMAIN g THEN g[f.origin] ELSE <<>>
         IN  build_graph_from(fs, i + 1, Put(g, f.origin, Append(old, f)))

build_graph(fs) == build_graph_from(fs, 1, EmptyDict)

\* graph.get(airport, [])
GraphGet(g, airport) == IF airport \in DOMAIN g THEN g[airport] ELSE <<>>

Reverse(s) == [i \in 1..Len(s) |-> s[Len(s) + 1 - i]]

\* the while loop of reconstruct_itinerary: path in append order
RECURSIVE WalkPrev(_, _, _)
WalkPrev(p, cur, path) ==
    IF cur \in DOMAIN p
    THEN WalkPrev(p, p[cur].origin, Append(path, p[cur]))
    ELSE path

reconstruct_itinerary(p, d) == Reverse(WalkPrev(p, d, <<>>))

(***************************************************************************)
(* The locals of one search call, as a record.                             *)
(***************************************************************************)
Locals ==
    [dist |-> dist, prev |-> prev, pq |-> pq, visited |-> visited, pc |-> pc,
     returned |-> returned, itinerary |-> itinerary, relaxations |-> relaxations]

ReturnNone(s) == [s EXCEPT !.pc = "done", !.returned = "None"]

\* price_for raised inside the search: the exception leaves the call
Raise(s) == [s EXCEPT !.pc = "done", !.returned = ValueError]

ReturnItinerary(s, d) ==
    [s EXCEPT !.pc = "done", !.returned = "Itinerary",
              !.itinerary = reconstruct_itinerary(s.prev, d)]

(***************************************************************************)
(* find_earliest_itinerary                                                 *)
(***************************************************************************)
\* tuple order of (time, airport)
EarliestLess(x, y) ==
    \/ x[1] < y[1]
    \/ x[1] = y[1] /\ Rank(x[2]) < Rank(y[2])

EarliestTop(q) == CHOOSE e \in q : \A o \in q \ {e} : EarliestLess(e, o)

\* lines 171-176
EarliestStart(st, dep) ==
    [dist |-> Put(EmptyDict, st, dep), prev |-> EmptyDict, pq |-> {<<dep, st>>},
     visited |-> {}, pc |-> "loop", returned |-> "pending", itinerary |-> <<>>,
     relaxations |-> 0]

\* line 186 with the layover left out of the else branch
EarliestRequiredNoLayover(cur_time, airport, st) == cur_time

\* line 186
EarliestRequired(cur_time, airport, st) ==
    IF airport = st THEN cur_time ELSE cur_time + MIN_LAYOVER_MINUTES

\* line 188 without its second disjunct: a labelled airport is never improved
EarliestImprovesUnlabelledOnly(f, d) == f.dest \notin DOMAIN d

\* line 188
EarliestImproves(f, d) == f.dest \notin DOMAIN d \/ f.arrive < d[f.dest]

\* lines 185-191: the for loop over graph.get(airport, [])
RECURSIVE EarliestRelax(_, _, _, _)
EarliestRelax(fs, i, required, s) ==
    IF i > Len(fs) THEN s
    ELSE LET f == fs[i]
             counted == [s EXCEPT !.relaxations = @ + 1]
         IN  IF f.depart >= required /\ EarliestImproves(f, s.dist)
             THEN EarliestRelax(fs, i + 1, required,
                      [counted EXCEPT !.dist = Put(s.dist, f.dest, f.arrive),
                                      !.prev = Put(s.prev, f.dest, f),
                                      !.pq = @ \cup {<<f.arrive, f.dest>>}])
             ELSE EarliestRelax(fs, i + 1, required, counted)

\* lines 178-192: one evaluation of the while condition and of the loop body
EarliestStep(g, st, d, s) ==
    IF s.pq = {} THEN ReturnNone(s)
    ELSE LET top == EarliestTop(s.pq)
             cur_time == top[1]
             airport == top[2]
             popped == [s EXCEPT !.pq = @ \ {top}]
         IN  IF airport \in s.visited THEN popped
             ELSE LET seen == [popped EXCEPT !.visited = @ \cup {airport}]
                  IN  IF airport = d THEN ReturnItinerary(seen, d)
                      ELSE EarliestRelax(GraphGet(g, airport), 1,
                               EarliestRequired(cur_time, airport, st), seen)

(***************************************************************************)
(* find_cheapest_itinerary                                                 *)
(***************************************************************************)
\* tuple order of (cost, arr_time, airport)
CheapestLess(x, y) ==
    \/ x[1] < y[1]
    \/ x[1] = y[1] /\ x[2] < y[2]
    \/ x[1] = y[1] /\ x[2] = y[2] /\ Rank(x[3]) < Rank(y[3])

CheapestTop(q) == CHOOSE e \in q : \A o \in q \ {e} : CheapestLess(e, o)

\* lines 195-200 with 0 for earliest_departure in the first heap entry
CheapestStartAtMidnight(st, dep) ==
    [dist |-> Put(EmptyDict, st, 0), prev |-> EmptyDict, pq |-> {<<0, 0, st>>},
     visited |-> {}, pc |-> "loop", returned |-> "pending", itinerary |-> <<>>,
     relaxations |-> 0]

\* lines 195-200
CheapestStart(st, dep) ==
    [dist |-> Put(EmptyDict, st, 0), prev |-> EmptyDict, pq |-> {<<0, dep, st>>},
     visited |-> {}, pc |-> "loop", returned |-> "pending", itinerary |-> <<>>,
     relaxations |-> 0]

\* line 210
CheapestAllowed(arr_time, airport, st) ==
    IF airport = st THEN arr_time ELSE arr_time + MIN_LAYOVER_MINUTES

\* line 213
CheapestImproves(f, new_cost, d) == f.dest \notin DOMAIN d \/ new_cost < d[f.dest]

\* lines 209-216: the for loop over graph.get(airport, [])
RECURSIVE CheapestRelax(_, _, _, _, _, _)
CheapestRelax(fs, i, earliest_allowed, cost, c, s) ==
    IF i > Len(fs) THEN s
    ELSE LET f == fs[i]
             new_cost == cost + price_for(f, c)
             counted == [s EXCEPT !.relaxations = @ + 1]
         IN  IF f.depart >= earliest_allowed /\ PriceRaises(c)
             THEN Raise(counted)
             ELSE IF f.depart >= earliest_allowed /\ CheapestImproves(f, new_cost, s.dist)
             THEN CheapestRelax(fs, i + 1, earliest_allowed, cost, c,
                      [counted EXCEPT !.dist = Put(s.dist, f.dest, new_cost),
                                      !.prev = Put(s.prev, f.dest, f),
                                      !.pq = @ \cup {<<new_cost, f.arrive, f.dest>>}])
             ELSE CheapestRelax(fs, i + 1, earliest_allowed, cost, c, counted)

\* lines 202-217: one evaluation of the while condition and of the loop body
CheapestStep(g, st, d, c, s) ==
    IF s.pq = {} THEN ReturnNone(s)
    ELSE LET top == CheapestTop(s.pq)
             cost == top[1]
             arr_time == top[2]
             airport == top[3]
             popped == [s EXCEPT !.pq = @ \ {top}]
         IN  IF <<airport, cost>> \in s.visited THEN popped
             ELSE LET seen == [popped EXCEPT !.visited = @ \cup {<<airport, cost>>}]
                  IN  IF airport = d THEN ReturnItinerary(seen, d)
                      ELSE CheapestRelax(GraphGet(g, airport), 1,
                               CheapestAllowed(arr_time, airport, st), cost, c, seen)

(***************************************************************************)
(* The searches as functions: the loop run until the call returns.         *)
(***************************************************************************)
RECURSIVE RunEarliest(_, _, _, _)
RunEarliest(g, st, d, s) ==
    IF s.pc = "done" THEN s ELSE RunEarliest(g, st, d, EarliestStep(g, st, d, s))

find_earliest_itinerary(g, st, d, dep) == RunEarliest(g, st, d, EarliestStart(st, dep))

RECURSIVE RunCheapest(_, _, _, _, _)
RunCheapest(g, st, d, c, s) ==
    IF s.pc = "done" THEN s ELSE RunCheapest(g, st, d, c, CheapestStep(g, st, d, c, s))

find_cheapest_itinerary(g, st, d, dep, c) ==
    RunCheapest(g, st, d, c, CheapestStart(st, dep))

\* Itinerary.total_price; the sum ends with the exception of the first
\* price_for call when the cabin is none of the three tags
RECURSIVE total_price(_, _)
total_price(it, c) ==
    IF it = <<>> THEN 0
    ELSE IF PriceRaises(c) THEN ValueError
    ELSE price_for(Head(it), c) + total_price(Tail(it), c)

\* Itinerary.arrive_time; -1 stands for None
arrive_time(it) == IF it = <<>> THEN -1 ELSE it[Len(it)].arrive

(***************************************************************************)
(* The searches as state machines.                                         *)
(***************************************************************************)
SetLocals(s) ==
    /\ dist' = s.dist
    /\ prev' = s.prev
    /\ pq' = s.pq
    /\ visited' = s.visited
    /\ pc' = s.pc
    /\ returned' = s.returned
    /\ itinerary' = s.itinerary
    /\ relaxations' = s.relaxations

InitLocals(s) ==
    /\ dist = s.dist
    /\ prev = s.prev
    /\ pq = s.pq
    /\ visited = s.visited
    /\ pc = s.pc
    /\ returned = s.returned
    /\ itinerary = s.itinerary
    /\ relaxations = s.relaxations

NoLoad ==
    /\ rows = <<>>
    /\ fmt = "none"
    /\ load_status = "none"
    /\ loaded = <<>>

InitEarliest ==
    /\ mode = "earliest"
    /\ cabin = "none"
    /\ start \in Starts
    /\ dest \in Airports
    /\ flights \in SchedulesUpTo(EarliestFlights, LongestFor(start, dest))
    /\ graph = build_graph(flights)
    /\ earliest_departure \in Departures
    /\ InitLocals(EarliestStart(start, earliest_departure))
    /\ NoLoad

InitCheapest ==
    /\ mode = "cheapest"
    /\ cabin \in Cabins
    /\ start \in Starts
    /\ dest \in Airports
    /\ flights \in SchedulesUpTo(CheapestFlights, LongestFor(start, dest))
    /\ graph = build_graph(flights)
    /\ earliest_departure \in Departures
    /\ InitLocals(CheapestStart(start, earliest_departure))
    /\ NoLoad

Init == InitCheapest \/ InitEarliest

\* find_earliest_itinerary: pq is non-empty, one pass through the loop body
EarliestIteration ==
    /\ mode = "earliest"
    /\ pc = "loop"
    /\ pq # {}
    /\ SetLocals(EarliestStep(graph, start, dest, Locals))
    /\ UNCHANGED <<queryVars, loadVars>>

\* find_earliest_itinerary: pq is empty, return None
EarliestExhausted ==
    /\ mode = "earliest"
    /\ pc = "loop"
    /\ pq = {}
    /\ SetLocals(EarliestStep(graph, start, dest, Locals))
    /\ UNCHANGED <<queryVars, loadVars>>

\* find_cheapest_itinerary: pq is non-empty, one pass through the loop body
CheapestIteration ==
    /\ mode = "cheapest"
    /\ pc = "loop"
    /\ pq # {}
    /\ SetLocals(CheapestStep(graph, start, dest, cabin, Locals))
    /\ UNCHANGED <<queryVars, loadVars>>

\* find_cheapest_itinerary: pq is empty, return None
CheapestExhausted ==
    /\ mode = "cheapest"
    /\ pc = "loop"
    /\ pq = {}
    /\ SetLocals(CheapestStep(graph, start, dest, cabin, Locals))
    /\ UNCHANGED <<queryVars, loadVars>>

Next ==
    \/ EarliestIteration
    \/ EarliestExhausted
    \/ CheapestIteration
    \/ CheapestExhausted

Spec == Init /\ [][Next]_vars

\* find_earliest_itinerary alone
NextEarliest == EarliestIteration \/ EarliestExhausted

SpecEarliest == InitEarliest /\ [][NextEarliest]_vars

\* find_cheapest_itinerary alone
NextCheapest == CheapestIteration \/ CheapestExhausted

SpecCheapest == InitCheapest /\ [][NextCheapest]_vars

(***************************************************************************)
(* The schedule loader.  A row is a line of the file after tokenising: a   *)
(* clock token "HH:MM" is the pair <<HH, MM>> of the integers int() reads, *)
(* a fare token is the integer int() reads.                                *)
(***************************************************************************)
ClockTokens == {<<8, 0>>, <<9, 0>>, <<9, 60>>, <<24, 0>>}
FareTokens == {-5, 100}

DataRows ==
    [kind : {"fields"}, origin : {"A"}, dest : {"B"},
     de : ClockTokens, ar : ClockTokens,
     e : FareTokens, b : {200}, f : FareTokens]

\* a blank line, a "#" comment line, a line that does not split into 8 parts
OtherRows ==
    {[kind |-> k, origin |-> "A", dest |-> "B", de |-> <<8, 0>>, ar |-> <<9, 0>>,
      e |-> 0, b |-> 200, f |-> 0] : k \in {"blank", "comment", "short"}}

TxtFiles == UNION {[1..n -> DataRows \cup OtherRows] : n \in 0..MaxRows}
CsvFiles == UNION {[1..n -> DataRows] : n \in 0..MaxRows}

\* parse_time: the range test of line 80
parse_time_ok(t) == 0 <= t[1] /\ t[1] < 24 /\ 0 <= t[2] /\ t[2] < 60

\* parse_time: line 82
parse_time(t) == t[1] * 60 + t[2]

\* parse_flight_line_txt returns None (lines 93-94)
TxtLineSkipped(row) == row.kind \in {"blank", "comment"}

\* parse_flight_line_txt raises (lines 96-102, and parse_time's raise)
TxtLineRaises(row) ==
    /\ ~TxtLineSkipped(row)
    /\ \/ row.kind = "short"
       \/ ~parse_time_ok(row.de)
       \/ ~parse_time_ok(row.ar)
       \/ parse_time(row.ar) <= parse_time(row.de)

\* line 103, lines 133-142
RowFlight(row) ==
    Flight(row.origin, row.dest, parse_time(row.de), parse_time(row.ar),
           <<row.e, row.b, row.f>>)

\* load_flights_txt: the loop of lines 109-115
RECURSIVE load_flights_txt(_, _, _)
load_flights_txt(rs, i, acc) ==
    IF i > Len(rs) THEN [status |-> "ok", flights |-> acc]
    ELSE IF TxtLineRaises(rs[i]) THEN [status |-> "ValueError", flights |-> <<>>]
    ELSE IF TxtLineSkipped(rs[i]) THEN load_flights_txt(rs, i + 1, acc)
    ELSE load_flights_txt(rs, i + 1, Append(acc, RowFlight(rs[i])))

\* load_flights_csv raises on a row (lines 128-131)
CsvRowRaises(row) ==
    \/ ~parse_time_ok(row.de)
    \/ ~parse_time_ok(row.ar)
    \/ parse_time(row.ar) <= parse_time(row.de)

\* load_flights_csv: the loop of lines 127-143
RECURSIVE load_flights_csv(_, _, _)
load_flights_csv(rs, i, acc) ==
    IF i > Len(rs) THEN [status |-> "ok", flights |-> acc]
    ELSE IF CsvRowRaises(rs[i]) THEN [status |-> "ValueError", flights |-> <<>>]
    ELSE load_flights_csv(rs, i + 1, Append(acc, RowFlight(rs[i])))

NoSearch ==
    /\ flights = <<>>
    /\ graph = EmptyDict
    /\ mode = "none"
    /\ start = "A"
    /\ dest = "A"
    /\ earliest_departure = 0
    /\ cabin = "none"
    /\ dist = EmptyDict
    /\ prev = EmptyDict
    /\ pq = {}
    /\ visited = {}
    /\ pc = "load"
    /\ returned = "pending"
    /\ itinerary = <<>>
    /\ relaxations = 0

InitLoad ==
    /\ fmt \in {"txt", "csv"}
    /\ rows \in (IF fmt = "txt" THEN TxtFiles ELSE CsvFiles)
    /\ load_status = "pending"
    /\ loaded = <<>>
    /\ NoSearch

\* load_flights on a path without the .csv suffix (line 150)
LoadFlightsTxt ==
    /\ fmt = "txt"
    /\ load_status = "pending"
    /\ LET r == load_flights_txt(rows, 1, <<>>)
       IN  /\ load_status' = r.status
           /\ loaded' = r.flights
    /\ UNCHANGED <<rows, fmt, queryVars, searchVars>>

\* load_flights on a .csv path whose header has the required columns (line 149)
LoadFlightsCsv ==
    /\ fmt = "csv"
    /\ load_status = "pending"
    /\ LET r == load_flights_csv(rows, 1, <<>>)
       IN  /\ load_status' = r.status
           /\ loaded' = r.flights
    /\ UNCHANGED <<rows, fmt, queryVars, searchVars>>

NextLoad == LoadFlightsTxt \/ LoadFlightsCsv

SpecLoad == InitLoad /\ [][NextLoad]_vars

(***************************************************************************)
(* Feasible itineraries of a schedule, by enumeration.                     *)
(***************************************************************************)
\* it is a chain of flights from st to d that leaves at or after dep and
\* keeps the minimum layover at every connection
Feasible(it, st, d, dep) ==
    /\ Len(it) >= 1
    /\ it[1].origin = st
    /\ it[1].depart >= dep
    /\ it[Len(it)].dest = d
    /\ \A i \in 1..(Len(it) - 1) :
          /\ it[i].dest = it[i + 1].origin
          /\ it[i + 1].depart >= it[i].arrive + MIN_LAYOVER_MINUTES

\* Every leg lasts a positive time, so a feasible itinerary uses a flight of
\* the schedule at most once and is no longer than the schedule.
FeasibleItineraries(fs, st, d, dep) ==
    LET picks == UNION {[1..k -> 1..Len(fs)] : k \in 1..Len(fs)}
        chain(s) == [i \in 1..Len(s) |-> fs[s[i]]]
    IN  {chain(s) : s \in {t \in picks : Feasible(chain(t), st, d, dep)}}

FeasibleNow == FeasibleItineraries(flights, start, dest, earliest_departure)

Orderings(fs) ==
    LET n == Len(fs)
        bij == {p \in [1..n -> 1..n] : \A i, j \in 1..n : p[i] = p[j] => i = j}
    IN  {[i \in 1..n |-> fs[p[i]]] : p \in bij}

Returned(m) == mode = m /\ pc = "done" /\ returned = "Itinerary"

\* airports find_cheapest_itinerary has popped and relaxed
Finalized == {v[1] : v \in visited}

\* the airports the predecessor walk passes, starting at cur, in at most n steps
RECURSIVE PrevWalk(_, _, _)
PrevWalk(p, cur, n) ==
    IF n = 0 \/ cur \notin DOMAIN p THEN {}
    ELSE {p[cur].origin} \cup PrevWalk(p, p[cur].origin, n - 1)

PrevAcyclic ==
    \A a \in DOMAIN prev : a \notin PrevWalk(prev, a, Cardinality(DOMAIN prev))

(***************************************************************************)
(* Claims.                                                                 *)
(***************************************************************************)

\* C1: an itinerary returned by find_cheapest_itinerary (start # dest) is
\* feasible: it leaves start at or after earliest_departure, lands at dest,
\* its legs connect, and every connection has at least 60 minutes.
C1_CheapestFeasible ==
    (Returned("cheapest") /\ start # dest)
        => Feasible(itinerary, start, dest, earliest_departure)

\* C2: when a feasible itinerary exists (start # dest), the cheapest search
\* returns an itinerary whose total price for the cabin is the minimum over
\* the feasible itineraries.
C2_CheapestOptimal ==
    (mode = "cheapest" /\ pc = "done" /\ start # dest /\ FeasibleNow # {})
        => /\ returned = "Itinerary"
           /\ \A it \in FeasibleNow :
                 total_price(itinerary, cabin) <= total_price(it, cabin)
           /\ \E it \in FeasibleNow :
                 total_price(itinerary, cabin) = total_price(it, cabin)

\* C3: when a feasible itinerary exists (start # dest), the earliest search
\* returns an itinerary whose arrival time is the minimum arrival time at dest
\* over the feasible itineraries.
C3_EarliestOptimal ==
    (mode = "earliest" /\ pc = "done" /\ start # dest /\ FeasibleNow # {})
        => /\ returned = "Itinerary"
           /\ \A it \in FeasibleNow : arrive_time(itinerary) <= arrive_time(it)
           /\ \E it \in FeasibleNow : arrive_time(itinerary) = arrive_time(it)

\* the earliest search returned a two-leg itinerary although a later feasible
\* arrival was on offer
C3_Witness ==
    /\ Returned("earliest")
    /\ start # dest
    /\ Len(itinerary) = 2
    /\ \E it \in FeasibleNow : arrive_time(it) > arrive_time(itinerary)

\* C4: an itinerary returned by find_earliest_itinerary (start # dest) is
\* feasible: its first leg leaves start at or after earliest_departure with
\* no layover added, it lands at dest, its legs connect, and every later leg
\* departs at least 60 minutes after the previous arrival.
C4_EarliestFeasible ==
    (Returned("earliest") /\ start # dest)
        => Feasible(itinerary, start, dest, earliest_departure)

\* a returned two-leg itinerary that leaves exactly at earliest_departure,
\* connects with exactly the minimum layover, and passed over an earlier
\* flight that left too soon
C4_Witness ==
    /\ Returned("earliest")
    /\ start # dest
    /\ Len(itinerary) = 2
    /\ itinerary[1].depart = earliest_departure
    /\ itinerary[2].depart = itinerary[1].arrive + MIN_LAYOVER_MINUTES
    /\ \E i \in 1..Len(flights) :
          flights[i].origin = start /\ flights[i].depart < earliest_departure

\* C5: when no feasible itinerary exists (start # dest), both searches
\* return None.
C5_NoPathReturnsNone ==
    (pc = "done" /\ start # dest /\ FeasibleNow = {}) => returned = "None"

\* the cheapest search returned None for a route whose only connection
\* misses the minimum layover
C5_Witness ==
    /\ mode = "cheapest"
    /\ pc = "done"
    /\ returned = "None"
    /\ start # dest
    /\ FeasibleNow = {}
    /\ \E i, j \in 1..Len(flights) :
          /\ flights[i].origin = start
          /\ flights[i].depart >= earliest_departure
          /\ flights[i].dest = flights[j].origin
          /\ flights[j].dest = dest
          /\ flights[j].depart < flights[i].arrive + MIN_LAYOVER_MINUTES

\* C6: the result of either search, start = dest included, is None or an
\* Itinerary with at least one flight.
C6_NeverEmptyItinerary ==
    pc = "done" => (returned = "None" \/ (returned = "Itinerary" /\ Len(itinerary) >= 1))

\* C7: every flight of a successfully loaded schedule has arrive > depart and
\* three non-negative fares.
C7_LoadedFlightsValid ==
    load_status = "ok"
        => \A i \in 1..Len(loaded) :
              /\ loaded[i].arrive > loaded[i].depart
              /\ loaded[i].economy >= 0
              /\ loaded[i].business >= 0
              /\ loaded[i].first >= 0

\* C8: for every permutation of the schedule the searches give the same
\* presence or absence of a result, the same arrival time (earliest) and the
\* same total price for the cabin (cheapest).  Stated at the call's entry, on
\* the results of the whole call for the two orders.
C8_OrderIndependent ==
    (pc = "loop" /\ visited = {})
        => \A p \in Orderings(flights) :
              IF mode = "earliest"
              THEN LET r == find_earliest_itinerary(graph, start, dest,
                                                    earliest_departure)
                       q == find_earliest_itinerary(build_graph(p), start, dest,
                                                    earliest_departure)
                   IN  /\ q.returned = r.returned
                       /\ arrive_time(q.itinerary) = arrive_time(r.itinerary)
              ELSE LET r == find_cheapest_itinerary(graph, start, dest,
                                                    earliest_departure, cabin)
                       q == find_cheapest_itinerary(build_graph(p), start, dest,
                                                    earliest_departure, cabin)
                   IN  /\ q.returned = r.returned
                       /\ total_price(q.itinerary, cabin) = total_price(r.itinerary, cabin)

\* C9: in find_cheapest_itinerary a pop of an airport that was already popped
\* and relaxed examines no outbound flight, and the cost label and the
\* predecessor of such an airport never change.
C9_FinalizedOnce ==
    [][(mode = "cheapest" /\ pc = "loop" /\ pq # {})
          => /\ CheapestTop(pq)[3] \in Finalized => relaxations' = relaxations
             /\ \A a \in Finalized :
                   /\ dist'[a] = dist[a]
                   /\ (a \in DOMAIN prev) = (a \in DOMAIN prev')
                   /\ a \in DOMAIN prev => prev'[a] = prev[a]]_vars

\* C10: the predecessor links never form a cycle, and one search examines at
\* most as many outbound flights as the schedule has flights.
C10_BoundedRelaxations ==
    /\ PrevAcyclic
    /\ relaxations <= Len(flights)

====
